---- MODULE Spec2Model ----
(***************************************************************************)
(* Model of the Policy Navigator front end (PolicyNavigatorApp.jsx): the   *)
(* upload -> extract -> index workflow (handleUpload), the ask workflow    *)
(* (handleAsk), the controls that trigger them, and the helpers toDocId    *)
(* and getBestText.                                                        *)
(*                                                                         *)
(* JavaScript strings are sequences of one-character strings, except the   *)
(* fixed pieces of a message (a template's literal text, the browser's     *)
(* error text), which are single elements.  JSON values are tagged         *)
(* records; an object is a sequence of <<key, value>> pairs in the order   *)
(* of its keys.  A handler runs atomically from one await to the next.     *)
(*                                                                         *)
(* main.jsx mounts PolicyNavigatorApp alone.  The components UploadPanel   *)
(* and AskForm, with the api module they call, are mounted by nothing      *)
(* under src; their handlers are modelled apart, in SpecPanel, and share   *)
(* no state with the page.  The dragOver flag and the file input's ref     *)
(* only restyle the page and are left out.                                 *)
(***************************************************************************)
EXTENDS Integers, Sequences, FiniteSets, TLC

(* ---------------- bounds of the model ---------------- *)

\* At most this many invocations of a handler are in flight at a time: a
\* handler invoked beyond that is not modelled.
MaxUploads == 2
MaxAsks == 2
\* The session counter is capped: no upload starts once it has reached this.
MaxIndexed == 2

(* ---------------- strings ---------------- *)

WhiteSpace == {" "}

RECURSIVE TrimStart(_)
TrimStart(s) ==
  IF s = <<>> THEN s
  ELSE IF Head(s) \in WhiteSpace THEN TrimStart(Tail(s)) ELSE s

RECURSIVE TrimEnd(_)
TrimEnd(s) ==
  IF s = <<>> THEN s
  ELSE IF s[Len(s)] \in WhiteSpace THEN TrimEnd(SubSeq(s, 1, Len(s) - 1)) ELSE s

\* String.prototype.trim
Trim(s) == TrimEnd(TrimStart(s))

UpperChars == <<"A","B","C","D","E","F","G","H","I","J","K","L","M",
                "N","O","P","Q","R","S","T","U","V","W","X","Y","Z">>
LowerChars == <<"a","b","c","d","e","f","g","h","i","j","k","l","m",
                "n","o","p","q","r","s","t","u","v","w","x","y","z">>
Digits == {"0","1","2","3","4","5","6","7","8","9"}

\* the class [a-z0-9] under the flag i
IsAlnum(c) ==
  \/ c \in Digits
  \/ \E i \in 1..26 : c = UpperChars[i] \/ c = LowerChars[i]

\* String.prototype.toLowerCase, one character
LowerOf(c) ==
  IF \E i \in 1..26 : c = UpperChars[i]
  THEN LowerChars[CHOOSE i \in 1..26 : c = UpperChars[i]]
  ELSE c

ToLowerCase(s) == [i \in 1..Len(s) |-> LowerOf(s[i])]

\* name.replace(/\.[^/.]+$/, ""): drop a last ".ext" that reaches the end of
\* the name, is not empty and holds no "/"
StripExt(s) ==
  LET dots == {i \in 1..Len(s) : s[i] = "."} IN
  IF dots = {} THEN s
  ELSE LET p == CHOOSE i \in dots : \A k \in dots : k <= i IN
       IF p < Len(s) /\ \A k \in (p + 1)..Len(s) : s[k] # "/"
       THEN SubSeq(s, 1, p - 1)
       ELSE s

RECURSIVE SkipNonAlnum(_)
SkipNonAlnum(s) ==
  IF s = <<>> THEN s
  ELSE IF IsAlnum(Head(s)) THEN s ELSE SkipNonAlnum(Tail(s))

\* .replace(/[^a-z0-9]+/gi, "-"): every run of other characters becomes one "-"
RECURSIVE Hyphenate(_)
Hyphenate(s) ==
  IF s = <<>> THEN s
  ELSE IF IsAlnum(Head(s)) THEN <<Head(s)>> \o Hyphenate(Tail(s))
  ELSE <<"-">> \o Hyphenate(SkipNonAlnum(Tail(s)))

\* toDocId: the id of the item sent to POST /index
toDocId(name) == <<"d","o","c","-">> \o ToLowerCase(Hyphenate(StripExt(name)))

(* ---------------- JSON values ---------------- *)

Undefined == [t |-> "undefined"]
JNull == [t |-> "null"]
JStr(s) == [t |-> "str", s |-> s]
JNum(n) == [t |-> "num", n |-> n]
JObj(kvs) == [t |-> "obj", kvs |-> kvs]

\* Boolean(v)
Truthy(v) ==
  CASE v.t = "undefined" -> FALSE
    [] v.t = "null" -> FALSE
    [] v.t = "str" -> v.s # <<>>
    [] v.t = "num" -> v.n # 0
    [] OTHER -> TRUE

\* v.k, for v that is not null or undefined
Get(v, k) ==
  IF v.t = "obj" /\ \E i \in 1..Len(v.kvs) : v.kvs[i][1] = k
  THEN v.kvs[CHOOSE i \in 1..Len(v.kvs) : v.kvs[i][1] = k][2]
  ELSE Undefined

\* v?.k
OptGet(v, k) == IF v.t \in {"undefined", "null"} THEN Undefined ELSE Get(v, k)

\* a || b
Or(a, b) == IF Truthy(a) THEN a ELSE b

\* the decimal digits of a natural number
RECURSIVE NumStr(_)
NumStr(n) ==
  LET d == <<"0","1","2","3","4","5","6","7","8","9">>[(n % 10) + 1] IN
  IF n < 10 THEN <<d>> ELSE NumStr(n \div 10) \o <<d>>

\* String(v), for the values a candidate field can hold
ToStr(v) ==
  CASE v.t = "str" -> v.s
    [] v.t = "num" -> NumStr(v.n)
    [] v.t = "obj" -> <<"[object Object]">>
    [] v.t = "null" -> <<"null">>
    [] OTHER -> <<"undefined">>

\* JSON.stringify(v, null, 2) at nesting depth d
RECURSIVE Stringify(_, _)
RECURSIVE StringifyPairs(_, _)
Indent(d) == [i \in 1..(2 * d) |-> " "]
StringifyPairs(kvs, d) ==
  IF kvs = <<>> THEN <<>>
  ELSE <<"\n">> \o Indent(d) \o <<"\"">> \o <<kvs[1][1]>> \o <<"\"", ":", " ">>
       \o Stringify(kvs[1][2], d)
       \o (IF Len(kvs) > 1 THEN <<",">> ELSE <<>>)
       \o StringifyPairs(Tail(kvs), d)
Stringify(v, d) ==
  CASE v.t = "str" -> <<"\"">> \o v.s \o <<"\"">>
    [] v.t = "num" -> NumStr(v.n)
    [] v.t = "null" -> <<"null">>
    [] v.t = "obj" ->
         IF v.kvs = <<>> THEN <<"{", "}">>
         ELSE <<"{">> \o StringifyPairs(v.kvs, d + 1) \o <<"\n">> \o Indent(d) \o <<"}">>
    [] OTHER -> <<>>

\* the candidates of getBestText, in the order of the source
Cands(data) ==
  << Get(data, "answer"), Get(data, "output"), Get(data, "message"),
     Get(data, "text"), Get(data, "result"),
     OptGet(Get(data, "data"), "answer"),
     OptGet(Get(data, "data"), "output"),
     OptGet(Get(data, "data"), "message") >>

\* getBestText(data): the text shown for a response of /ask or /chat
getBestText(data) ==
  IF ~Truthy(data) THEN <<>>
  ELSE IF data.t = "str" THEN data.s
  ELSE LET cands == SelectSeq(Cands(data), Truthy) IN
       IF cands # <<>> THEN ToStr(cands[1]) ELSE Stringify(data, 0)

(* ---------------- the values the environment supplies ---------------- *)

NoFile == [t |-> "null"]
\* the files the user can select
File(name) == [t |-> "file", name |-> name]
Files == { File(<<"A"," ","1",".","t","x","t">>) }
\* what the user can type into the question box
Questions == { <<>>, <<" ">>, <<"q","?">> }
Modes == {"pipeline", "chat"}
\* the HTTP statuses a server answers with
Statuses == {200, 500}
\* Response.ok
IsOk(status) == status >= 200 /\ status <= 299

\* the bodies POST /upload can answer with: { text?, filename? }
UploadTexts == { Undefined, JStr(<<>>), JStr(<<" ">>), JStr(<<"o","k">>) }
UploadNames == { Undefined, JStr(<<"B",".","p","d","f">>) }
UploadBody(text, filename) ==
  JObj((IF text = Undefined THEN <<>> ELSE << <<"text", text>> >>)
       \o (IF filename = Undefined THEN <<>> ELSE << <<"filename", filename>> >>))
UploadBodies == { UploadBody(x, n) : x \in UploadTexts, n \in UploadNames }

\* the bodies POST /index can answer with: { upserted? }
IndexBodies == { JObj(<<>>), JObj(<< <<"upserted", JNum(0)>> >>),
                 JObj(<< <<"upserted", JNum(2)>> >>) }

\* the bodies POST /ask and POST /chat can answer with
AskBodies == { JNull,
               JStr(<<"p">>),
               JObj(<< <<"answer", JStr(<<"a">>)>>, <<"output", JStr(<<"b">>)>> >>),
               JObj(<< <<"data", JObj(<< <<"answer", JStr(<<"z">>)>> >>)>> >>),
               JObj(<< <<"data", JObj(<< <<"text", JStr(<<"t">>)>> >>)>> >>),
               JObj(<< <<"detail", JStr(<<"e">>)>> >>) }

\* err.message of a fetch that rejects, and of a body that is not JSON
FetchErrorMessage == <<"Failed to fetch">>
JsonErrorMessage == <<"Unexpected token">>
\* `Upload failed: ${r.status}` and `Index failed: ${ix.status}`
UploadFailedMessage(status) == <<"Upload failed: ">> \o NumStr(status)
IndexFailedMessage(status) == <<"Index failed: ">> \o NumStr(status)
\* `<warning sign> ${err.message}` (the sign is U+26A0 U+FE0F in the source)
WarningMark == "[warning] "
Warn(message) == <<WarningMark>> \o message
IsWarning(s) == s # <<>> /\ s[1] = WarningMark

(* ---------------- state ---------------- *)

VARIABLES
  selectedFile,   \* useState(null): the chosen file, or NoFile
  uploading,      \* useState(false): the upload workflow's busy flag
  extracted,      \* useState(""): the displayed extracted text
  indexedCount,   \* useState(0): documents indexed in this session
  autoIndex,      \* useState(true): the auto-index toggle
  lastFilename,   \* useState("")
  mode,           \* useState("pipeline")
  question,       \* useState("")
  answer,         \* useState(""): the displayed answer
  loadingAsk,     \* useState(false): the ask workflow's busy flag
  raw,            \* useState(null): the raw response of the last ask
  uploads,        \* the invocations of handleUpload on record: the ones in
                  \* flight, and the ones ended since the last one started
  asks,           \* the same for handleAsk
  lastNoop,       \* the handler that last returned at its first line, whether
                  \* an answer was on display then, and a bit that every such
                  \* return flips
  panelFile,      \* UploadPanel: useState(null), the chosen file
  panelStatus,    \* UploadPanel: useState(""), the status line
  panelRuns,      \* UploadPanel: the invocations of its handleUpload on record
  formQ,          \* AskForm: useState(""), the question
  formBusy,       \* AskForm: useState(false)
  formRuns        \* AskForm: the invocations of submit on record

\* the state of the components UploadPanel and AskForm
legacy == << panelFile, panelStatus, panelRuns, formQ, formBusy, formRuns >>

vars == << selectedFile, uploading, extracted, indexedCount, autoIndex,
           lastFilename, mode, question, answer, loadingAsk, raw,
           uploads, asks, lastNoop, legacy >>

uploadState == << uploading, extracted, indexedCount, lastFilename >>
askState == << answer, loadingAsk, raw >>
controls == << selectedFile, autoIndex, mode, question >>

Init ==
  /\ selectedFile = NoFile
  /\ uploading = FALSE
  /\ extracted = <<>>
  /\ indexedCount = 0
  /\ autoIndex = TRUE
  /\ lastFilename = <<>>
  /\ mode = "pipeline"
  /\ question = <<>>
  /\ answer = <<>>
  /\ loadingAsk = FALSE
  /\ raw = JNull
  /\ uploads = <<>>
  /\ asks = <<>>
  /\ lastNoop = [fn |-> "none", answered |-> FALSE, tick |-> 0]
  /\ panelFile = NoFile
  /\ panelStatus = <<>>
  /\ panelRuns = <<>>
  /\ formQ = <<>>
  /\ formBusy = FALSE
  /\ formRuns = <<>>

\* one event of an invocation's network log: the request, the fetch that
\* rejects, the response with its status, the body that is or is not JSON
Ev(endpoint, what, status) == <<endpoint, what, status>>

InFlight(rec) == rec.pc # "done"
\* the invocations still in flight, in the order they started
Running(recs) == SelectSeq(recs, InFlight)

(* ---------------- the controls ---------------- *)

\* <input type="file" onChange>: the first file chosen, or null
ChooseFile ==
  /\ \E f \in Files \cup {NoFile} : selectedFile' = f
  /\ UNCHANGED << uploadState, askState, autoIndex, mode, question,
                  uploads, asks, lastNoop, legacy >>

\* handleDrop: the first dropped file, if there is one
handleDrop ==
  /\ \E f \in Files \cup {NoFile} :
       selectedFile' = IF f # NoFile THEN f ELSE selectedFile
  /\ UNCHANGED << uploadState, askState, autoIndex, mode, question,
                  uploads, asks, lastNoop, legacy >>

\* the auto-index checkbox
ToggleAutoIndex ==
  /\ autoIndex' = ~autoIndex
  /\ UNCHANGED << uploadState, askState, selectedFile, mode, question,
                  uploads, asks, lastNoop, legacy >>

\* the two mode buttons
SetMode ==
  /\ \E m \in Modes : mode' = m
  /\ UNCHANGED << uploadState, askState, selectedFile, autoIndex, question,
                  uploads, asks, lastNoop, legacy >>

\* the question box
SetQuestion ==
  /\ \E q \in Questions : question' = q
  /\ UNCHANGED << uploadState, askState, selectedFile, autoIndex, mode,
                  uploads, asks, lastNoop, legacy >>

(* ---------------- the upload workflow: handleUpload ---------------- *)

\* data.filename || selectedFile.name
FilenameOf(data, file) == Or(Get(data, "filename"), JStr(file.name)).s

\* data.text || ""
TextOf(data) == Or(Get(data, "text"), JStr(<<>>)).s

\* mutant: the indexing call does not depend on the toggle
ShouldIndexAnyToggle(auto, data) == Trim(TextOf(data)) # <<>>

\* mutant: the indexing call does not depend on the text
ShouldIndexAnyText(auto, data) == auto

\* mutant: the indexing call depends on the toggle as it is when the
\* extraction call returns
ShouldIndexLive(auto, data) == autoIndex /\ Trim(TextOf(data)) # <<>>

\* autoIndex && (data.text || "").trim()
ShouldIndex(auto, data) == auto /\ Trim(TextOf(data)) # <<>>

\* the body of POST /index: one item
IndexRequest(data, file) ==
  [ items |-> << [ id |-> toDocId(FilenameOf(data, file)),
                   text |-> Get(data, "text"),
                   meta |-> [ filename |-> FilenameOf(data, file),
                              source |-> "upload" ] ] >> ]

\* j.upserted || body.items.length
Upserted(j, body) == Or(Get(j, "upserted"), JNum(Len(body.items))).n

\* mutant: the status of the /upload response is not checked
UploadOkUnchecked(status) == TRUE

\* if (!r.ok) throw new Error(`Upload failed: ${r.status}`)
UploadOk(status) == IsOk(status)

\* mutant: the status of the /index response is not checked
IndexOkUnchecked(status) == TRUE

\* if (!ix.ok) throw new Error(`Index failed: ${ix.status}`)
IndexOk(status) == IsOk(status)

\* mutant: the Upload button stays enabled while an upload is in flight
UploadDisabledNoFile == selectedFile = NoFile

\* <button onClick={handleUpload} disabled={!selectedFile || uploading}>
UploadDisabled == selectedFile = NoFile \/ uploading

\* handleUpload, to its first await: nothing without a file; otherwise set
\* the busy flag, clear the displays and issue POST /upload
handleUpload ==
  IF selectedFile = NoFile
  THEN /\ lastNoop' = [fn |-> "handleUpload", answered |-> answer # <<>>,
                        tick |-> 1 - lastNoop.tick]
       /\ UNCHANGED << uploadState, askState, controls, uploads, asks, legacy >>
  ELSE /\ Len(Running(uploads)) < MaxUploads
       /\ indexedCount < MaxIndexed
       /\ uploading' = TRUE
       /\ extracted' = <<>>
       /\ answer' = <<>>
       /\ raw' = JNull
       /\ uploads' = Append(Running(uploads),
            [ pc |-> "fetchUpload",
              file |-> selectedFile,
              autoIndex |-> autoIndex,
              count0 |-> indexedCount,
              name0 |-> lastFilename,
              text |-> Undefined,
              body |-> Undefined,
              reply |-> Undefined,
              calls |-> << Ev("/upload", "request", 0) >>,
              outcome |-> "none" ])
       /\ UNCHANGED << indexedCount, lastFilename, loadingAsk, controls,
                       asks, lastNoop, legacy >>

\* a click on the Upload button
ClickUpload == ~UploadDisabled /\ handleUpload

\* mutant: the catch block leaves the extracted text on display
UploadCatchKeepsText(i, message, ev) ==
  /\ uploading' = FALSE
  /\ uploads' = [uploads EXCEPT ![i] =
       [@ EXCEPT !.pc = "done", !.outcome = "Failed", !.calls = Append(@, ev)]]
  /\ UNCHANGED << extracted, indexedCount, lastFilename, askState, controls,
                  asks, lastNoop, legacy >>

\* mutant: a catch of handleUpload with no finally, the busy flag stays set
UploadCatchKeepsBusy(i, message, ev) ==
  /\ extracted' = Warn(message)
  /\ uploads' = [uploads EXCEPT ![i] =
       [@ EXCEPT !.pc = "done", !.outcome = "Failed", !.calls = Append(@, ev)]]
  /\ UNCHANGED << uploading, indexedCount, lastFilename, askState, controls, asks,
                  lastNoop, legacy >>

\* catch (err) { setExtracted(...) } finally { setUploading(false) }
UploadCatch(i, message, ev) ==
  /\ extracted' = Warn(message)
  /\ uploading' = FALSE
  /\ uploads' = [uploads EXCEPT ![i] =
       [@ EXCEPT !.pc = "done", !.outcome = "Failed", !.calls = Append(@, ev)]]
  /\ UNCHANGED << indexedCount, lastFilename, askState, controls, asks, lastNoop, legacy >>

\* await fetch(`${API_BASE}/upload`) settles: it rejects, or it resolves with
\* a response whose status is checked
UploadFetched(i) ==
  /\ uploads[i].pc = "fetchUpload"
  /\ \/ UploadCatch(i, FetchErrorMessage, Ev("/upload", "rejected", 0))
     \/ \E status \in Statuses :
          IF ~UploadOk(status)
          THEN UploadCatch(i, UploadFailedMessage(status), Ev("/upload", "response", status))
          ELSE /\ uploads' = [uploads EXCEPT ![i] =
                    [@ EXCEPT !.pc = "jsonUpload",
                              !.calls = Append(@, Ev("/upload", "response", status))]]
               /\ UNCHANGED << uploadState, askState, controls, asks, lastNoop, legacy >>

\* await r.json() settles: the body is not JSON, or it is `data`; the text
\* and the filename are stored and, when ShouldIndex, POST /index is issued
UploadParsed(i) ==
  /\ uploads[i].pc = "jsonUpload"
  /\ \/ UploadCatch(i, JsonErrorMessage, Ev("/upload", "badjson", 0))
     \/ \E data \in UploadBodies :
          LET rec == uploads[i]
              parsed == [rec EXCEPT !.text = JStr(TextOf(data)),
                                    !.calls = Append(@, Ev("/upload", "json", 0))]
          IN
          /\ extracted' = TextOf(data)
          /\ lastFilename' = FilenameOf(data, rec.file)
          /\ IF ShouldIndex(rec.autoIndex, data)
             THEN /\ uploads' = [uploads EXCEPT ![i] =
                       [parsed EXCEPT !.pc = "fetchIndex",
                                      !.body = IndexRequest(data, rec.file),
                                      !.calls = Append(@, Ev("/index", "request", 0))]]
                  /\ UNCHANGED uploading
             ELSE /\ uploads' = [uploads EXCEPT ![i] =
                       [parsed EXCEPT !.pc = "done", !.outcome = "ExtractedOnly"]]
                  /\ uploading' = FALSE
          /\ UNCHANGED << indexedCount, askState, controls, asks, lastNoop, legacy >>

\* await fetch(`${API_BASE}/index`) settles
IndexFetched(i) ==
  /\ uploads[i].pc = "fetchIndex"
  /\ \/ UploadCatch(i, FetchErrorMessage, Ev("/index", "rejected", 0))
     \/ \E status \in Statuses :
          IF ~IndexOk(status)
          THEN UploadCatch(i, IndexFailedMessage(status), Ev("/index", "response", status))
          ELSE /\ uploads' = [uploads EXCEPT ![i] =
                    [@ EXCEPT !.pc = "jsonIndex",
                              !.calls = Append(@, Ev("/index", "response", status))]]
               /\ UNCHANGED << uploadState, askState, controls, asks, lastNoop, legacy >>

\* await ix.json() settles: setIndexedCount((c) => c + ...), then finally
IndexParsed(i) ==
  /\ uploads[i].pc = "jsonIndex"
  /\ \/ UploadCatch(i, JsonErrorMessage, Ev("/index", "badjson", 0))
     \/ \E j \in IndexBodies :
          /\ indexedCount' = indexedCount + Upserted(j, uploads[i].body)
          /\ uploading' = FALSE
          /\ uploads' = [uploads EXCEPT ![i] =
               [@ EXCEPT !.pc = "done", !.outcome = "Indexed", !.reply = j,
                         !.calls = Append(@, Ev("/index", "json", 0))]]
          /\ UNCHANGED << extracted, lastFilename, askState, controls, asks, lastNoop, legacy >>

UploadStep ==
  \E i \in 1..Len(uploads) :
    UploadFetched(i) \/ UploadParsed(i) \/ IndexFetched(i) \/ IndexParsed(i)

(* ---------------- the ask workflow: handleAsk ---------------- *)

\* mutant: the question is tested without trim()
IsBlankUntrimmed(q) == q = <<>>

\* !question.trim()
IsBlank(q) == Trim(q) = <<>>

\* mutant: both branches call /ask
EndpointAlwaysAsk(m) == "/ask"

\* the branch `mode === "pipeline"` picks the endpoint
EndpointOf(m) == IF m = "pipeline" THEN "/ask" ELSE "/chat"

\* the body of the request, by branch
AskRequest(m, q) ==
  IF m = "pipeline"
  THEN [ question |-> Trim(q), extra_inputs |-> <<>> ]
  ELSE [ message |-> Trim(q), llm_id |-> <<>> ]

\* <button onClick={handleAsk} disabled={!question.trim() || loadingAsk}>
AskDisabled == IsBlank(question) \/ loadingAsk

\* a handleAsk that leaves the previous answer and raw response on display
\* while the new request is in flight
handleAskKeepsAnswer ==
  IF IsBlank(question)
  THEN /\ lastNoop' = [fn |-> "handleAsk", answered |-> answer # <<>>,
                        tick |-> 1 - lastNoop.tick]
       /\ UNCHANGED << uploadState, askState, controls, uploads, asks, legacy >>
  ELSE /\ Len(Running(asks)) < MaxAsks
       /\ loadingAsk' = TRUE
       /\ asks' = Append(Running(asks),
            [ pc |-> "fetchAsk",
              mode |-> mode,
              endpoint |-> EndpointOf(mode),
              body |-> AskRequest(mode, question),
              status |-> 0,
              calls |-> << Ev(EndpointOf(mode), "request", 0) >>,
              outcome |-> "none" ])
       /\ UNCHANGED << answer, raw, uploadState, controls, uploads, lastNoop, legacy >>

\* handleAsk, to its await: nothing for a blank question; otherwise set the
\* busy flag, clear the answer and the raw response, and issue the request of
\* the selected mode
handleAsk ==
  IF IsBlank(question)
  THEN /\ lastNoop' = [fn |-> "handleAsk", answered |-> answer # <<>>,
                        tick |-> 1 - lastNoop.tick]
       /\ UNCHANGED << uploadState, askState, controls, uploads, asks, legacy >>
  ELSE /\ Len(Running(asks)) < MaxAsks
       /\ loadingAsk' = TRUE
       /\ answer' = <<>>
       /\ raw' = JNull
       /\ asks' = Append(Running(asks),
            [ pc |-> "fetchAsk",
              mode |-> mode,
              endpoint |-> EndpointOf(mode),
              body |-> AskRequest(mode, question),
              status |-> 0,
              calls |-> << Ev(EndpointOf(mode), "request", 0) >>,
              outcome |-> "none" ])
       /\ UNCHANGED << uploadState, controls, uploads, lastNoop, legacy >>

\* a click on the Ask button
ClickAsk == ~AskDisabled /\ handleAsk

\* a catch of handleAsk that reports the failure in the extracted-text pane too
AskCatchInExtracted(i, message, ev) ==
  /\ answer' = Warn(message)
  /\ extracted' = Warn(message)
  /\ loadingAsk' = FALSE
  /\ asks' = [asks EXCEPT ![i] =
       [@ EXCEPT !.pc = "done", !.outcome = "Failed", !.calls = Append(@, ev)]]
  /\ UNCHANGED << raw, selectedFile, uploading, indexedCount, autoIndex, lastFilename,
                  controls, uploads, lastNoop, legacy >>

\* catch (err) { setAnswer(...) } finally { setLoadingAsk(false) }
AskCatch(i, message, ev) ==
  /\ answer' = Warn(message)
  /\ loadingAsk' = FALSE
  /\ asks' = [asks EXCEPT ![i] =
       [@ EXCEPT !.pc = "done", !.outcome = "Failed", !.calls = Append(@, ev)]]
  /\ UNCHANGED << raw, uploadState, controls, uploads, lastNoop, legacy >>

\* await fetch(...) settles: it rejects, or it resolves with a response of
\* any status
AskFetched(i) ==
  /\ asks[i].pc = "fetchAsk"
  /\ \/ AskCatch(i, FetchErrorMessage, Ev(asks[i].endpoint, "rejected", 0))
     \/ \E status \in Statuses :
          /\ asks' = [asks EXCEPT ![i] =
               [@ EXCEPT !.pc = "jsonAsk", !.status = status,
                         !.calls = Append(@, Ev(asks[i].endpoint, "response", status))]]
          /\ UNCHANGED << askState, uploadState, controls, uploads, lastNoop, legacy >>

\* await r.json() settles: setRaw(j); setAnswer(getBestText(j)); then finally
AskParsed(i) ==
  /\ asks[i].pc = "jsonAsk"
  /\ \/ AskCatch(i, JsonErrorMessage, Ev(asks[i].endpoint, "badjson", 0))
     \/ \E j \in AskBodies :
          /\ raw' = j
          /\ answer' = getBestText(j)
          /\ loadingAsk' = FALSE
          /\ asks' = [asks EXCEPT ![i] =
               [@ EXCEPT !.pc = "done", !.outcome = "Answered",
                         !.calls = Append(@, Ev(asks[i].endpoint, "json", 0))]]
          /\ UNCHANGED << uploadState, controls, uploads, lastNoop, legacy >>

AskStep == \E i \in 1..Len(asks) : AskFetched(i) \/ AskParsed(i)

(* ---------------- specifications ---------------- *)

\* the handlers are invoked by their buttons only
Next ==
  \/ ChooseFile
  \/ handleDrop
  \/ ToggleAutoIndex
  \/ SetMode
  \/ SetQuestion
  \/ ClickUpload
  \/ ClickAsk
  \/ UploadStep
  \/ AskStep

Spec == Init /\ [][Next]_vars

\* one workflow alone, its handler invoked directly, whatever the state of
\* its button
NextAsk == SetMode \/ SetQuestion \/ handleAsk \/ AskStep

SpecAsk == Init /\ [][NextAsk]_vars

NextUpload == ChooseFile \/ handleDrop \/ ToggleAutoIndex \/ handleUpload \/ UploadStep

SpecUpload == Init /\ [][NextUpload]_vars

(* ---------------- the components UploadPanel and AskForm ---------------- *)

\* the state of the page, which these components leave alone
page == << selectedFile, uploading, extracted, indexedCount, autoIndex,
           lastFilename, mode, question, answer, loadingAsk, raw,
           uploads, asks, lastNoop >>

\* the values crypto.randomUUID() can return
UUIDs == { <<"u","1">>, <<"u","2">> }

\* <input type="file" onChange>: e.target.files?.[0] ?? null
PanelChooseFile ==
  /\ \E f \in Files \cup {NoFile} : panelFile' = f
  /\ UNCHANGED << page, panelStatus, panelRuns, formQ, formBusy, formRuns >>

\* <button onClick={handleUpload} disabled={!file}>
PanelUploadDisabled == panelFile = NoFile

\* `Indexing ${up.filename}...` and `Indexed ${up.filename}`
IndexingStatus(filename) == <<"Indexing ">> \o ToStr(filename) \o <<"...">>
IndexedStatus(filename) == <<"Indexed ">> \o ToStr(filename)

\* UploadPanel's handleUpload, to its first await: uploadFile(file) issues
\* POST /upload
UploadPanel_handleUpload ==
  IF panelFile = NoFile
  THEN UNCHANGED vars
  ELSE /\ Len(Running(panelRuns)) < MaxUploads
       /\ panelStatus' = <<"Extracting text...">>
       /\ panelRuns' = Append(Running(panelRuns),
            [ pc |-> "fetchUpload", items |-> <<>>, ended |-> "none" ])
       /\ UNCHANGED << page, panelFile, formQ, formBusy, formRuns >>

\* a click on the Upload button of the panel
PanelClickUpload == ~PanelUploadDisabled /\ UploadPanel_handleUpload

\* an error raised in uploadFile or indexItems: nothing catches it, and the
\* promise of handleUpload rejects
PanelThrow(i) ==
  /\ panelRuns' = [panelRuns EXCEPT ![i] = [@ EXCEPT !.pc = "done", !.ended = "threw"]]
  /\ UNCHANGED << page, panelFile, panelStatus, formQ, formBusy, formRuns >>

\* the fetch of uploadFile or indexItems settles: it rejects, or it resolves
\* and res.ok sends the function to res.json() or to res.text()
PanelFetched(i, awaiting, json, text) ==
  /\ panelRuns[i].pc = awaiting
  /\ \/ PanelThrow(i)
     \/ \E status \in Statuses :
          /\ panelRuns' = [panelRuns EXCEPT ![i] =
               [@ EXCEPT !.pc = IF IsOk(status) THEN json ELSE text]]
          /\ UNCHANGED << page, panelFile, panelStatus, formQ, formBusy, formRuns >>

\* throw new Error(await res.text())
PanelTextRead(i, awaiting) ==
  /\ panelRuns[i].pc = awaiting
  /\ PanelThrow(i)

\* uploadFile returns `up`: the status line names the file, a fresh UUID is
\* drawn for the item and indexItems issues POST /index
PanelUploaded(i) ==
  /\ panelRuns[i].pc = "jsonUpload"
  /\ \/ PanelThrow(i)
     \/ \E up \in UploadBodies, docId \in UUIDs :
          /\ panelStatus' = IndexingStatus(Get(up, "filename"))
          /\ panelRuns' = [panelRuns EXCEPT ![i] =
               [@ EXCEPT !.pc = "fetchIndex",
                         !.items = << [ id |-> docId,
                                        text |-> Get(up, "text"),
                                        meta |-> [ source |-> Get(up, "filename") ] ] >>]]
          /\ UNCHANGED << page, panelFile, formQ, formBusy, formRuns >>

\* indexItems returns: the status line says so; onIndexed is a prop nothing
\* under src passes
PanelIndexed(i) ==
  /\ panelRuns[i].pc = "jsonIndex"
  /\ \/ PanelThrow(i)
     \/ \E j \in IndexBodies :
          /\ panelStatus' = IndexedStatus(panelRuns[i].items[1].meta.source)
          /\ panelRuns' = [panelRuns EXCEPT ![i] =
               [@ EXCEPT !.pc = "done", !.ended = "returned"]]
          /\ UNCHANGED << page, panelFile, formQ, formBusy, formRuns >>

PanelStep ==
  \E i \in 1..Len(panelRuns) :
    \/ PanelFetched(i, "fetchUpload", "jsonUpload", "textUpload")
    \/ PanelTextRead(i, "textUpload")
    \/ PanelUploaded(i)
    \/ PanelFetched(i, "fetchIndex", "jsonIndex", "textIndex")
    \/ PanelTextRead(i, "textIndex")
    \/ PanelIndexed(i)

\* AskForm: <input onChange={e => setQ(e.target.value)}>
FormSetQ ==
  /\ \E x \in Questions : formQ' = x
  /\ UNCHANGED << page, panelFile, panelStatus, panelRuns, formBusy, formRuns >>

\* <button disabled={busy || !q.trim()}>, the form's submit button
FormDisabled == formBusy \/ Trim(formQ) = <<>>

\* AskForm's submit, to its await: nothing for a blank question; otherwise
\* setBusy(true) and ask(q) issues POST /ask
AskForm_submit ==
  IF Trim(formQ) = <<>>
  THEN UNCHANGED vars
  ELSE /\ Len(Running(formRuns)) < MaxAsks
       /\ formBusy' = TRUE
       /\ formRuns' = Append(Running(formRuns),
            [ pc |-> "fetchAsk",
              body |-> [ question |-> formQ ],
              ended |-> "none" ])
       /\ UNCHANGED << page, panelFile, panelStatus, panelRuns, formQ >>

\* the form is submitted
FormSubmit == ~FormDisabled /\ AskForm_submit

\* try { ... } finally { setBusy(false) }: the flag is cleared and, with no
\* catch, the error of ask(q) leaves submit
FormEnd(i, how) ==
  /\ formBusy' = FALSE
  /\ formRuns' = [formRuns EXCEPT ![i] =
       [@ EXCEPT !.pc = "done", !.ended = how]]
  /\ UNCHANGED << page, panelFile, panelStatus, panelRuns, formQ >>

\* the steps of ask(q) and the rest of submit: onAnswer?.(res.data) raises a
\* TypeError when the reply is null
FormStep ==
  \E i \in 1..Len(formRuns) :
    \/ /\ formRuns[i].pc = "fetchAsk"
       /\ \/ FormEnd(i, "threw")
          \/ \E status \in Statuses :
               /\ formRuns' = [formRuns EXCEPT ![i] =
                    [@ EXCEPT !.pc = IF IsOk(status) THEN "jsonAsk" ELSE "textAsk"]]
               /\ UNCHANGED << page, panelFile, panelStatus, panelRuns, formQ, formBusy >>
    \/ /\ formRuns[i].pc = "textAsk"
       /\ FormEnd(i, "threw")
    \/ /\ formRuns[i].pc = "jsonAsk"
       /\ \/ FormEnd(i, "threw")
          \/ \E res \in AskBodies :
               FormEnd(i, IF res = JNull THEN "threw" ELSE "returned")

\* UploadPanel and AskForm side by side
NextPanel ==
  \/ PanelChooseFile
  \/ PanelClickUpload
  \/ PanelStep
  \/ FormSetQ
  \/ FormSubmit
  \/ FormStep

SpecPanel == Init /\ [][NextPanel]_vars

\* the three handlers that keep a busy flag, each invoked by its button, with
\* the auto-index toggle and the mode left as they are at first
NextBusy ==
  \/ ChooseFile
  \/ SetQuestion
  \/ ClickUpload
  \/ ClickAsk
  \/ UploadStep
  \/ AskStep
  \/ FormSetQ
  \/ FormSubmit
  \/ FormStep

SpecBusy == Init /\ [][NextBusy]_vars

\* every remote call that was issued completes, with a response or an error:
\* a continuation that can run does run
FairBusy ==
  SpecBusy /\ WF_vars(UploadStep) /\ WF_vars(AskStep) /\ WF_vars(FormStep)

(* ---------------- properties ---------------- *)

Last(seq) == seq[Len(seq)]

\* the log holds an event `what` of the call to `endpoint`
Has(calls, endpoint, what) ==
  \E k \in 1..Len(calls) : calls[k][1] = endpoint /\ calls[k][2] = what

\* the event ends a call in failure: the fetch rejected, the response has a
\* non-success status, or its body is not JSON
IsFailure(ev) ==
  \/ ev[2] \in {"rejected", "badjson"}
  \/ ev[2] = "response" /\ ~IsOk(ev[3])

CallFailed(calls, endpoint) ==
  \E k \in 1..Len(calls) : calls[k][1] = endpoint /\ IsFailure(calls[k])

CallSucceeded(calls, endpoint) ==
  Has(calls, endpoint, "json") /\ ~CallFailed(calls, endpoint)

\* the message of the error a failed call raises
FailureMessage(ev) ==
  CASE ev[2] = "rejected" -> FetchErrorMessage
    [] ev[2] = "badjson" -> JsonErrorMessage
    [] ev[1] = "/upload" -> UploadFailedMessage(ev[3])
    [] OTHER -> IndexFailedMessage(ev[3])

\* C1: in every invocation of the upload workflow, POST /index is issued only
\* after the POST /upload of that invocation has completed (its body parsed),
\* and never by an invocation whose extraction call failed.
C1_IndexAfterExtraction ==
  \A i \in 1..Len(uploads) :
    LET c == uploads[i].calls IN
    \A k \in 1..Len(c) :
      (c[k][1] = "/index" /\ c[k][2] = "request")
        => /\ \E m \in 1..(k - 1) : c[m] = Ev("/upload", "json", 0)
           /\ ~CallFailed(c, "/upload")

\* an invocation has issued its indexing call and has ended
C1_Witness ==
  \E i \in 1..Len(uploads) :
    uploads[i].pc = "done" /\ Has(uploads[i].calls, "/index", "request")

\* C2 (as claimed): a response with a non-success status, on any of the four
\* calls, ends the invocation in Failed with a warning displayed, and an
\* ask/chat response of that kind is neither stored as the raw response nor
\* normalized into the answer.
C2_NonSuccessIsFailure ==
  /\ \A i \in 1..Len(uploads) :
       (uploads[i].pc = "done"
          /\ \E k \in 1..Len(uploads[i].calls) :
               uploads[i].calls[k][2] = "response" /\ ~IsOk(uploads[i].calls[k][3]))
         => uploads[i].outcome = "Failed" /\ IsWarning(extracted)
  /\ \A i \in 1..Len(asks) :
       (asks[i].pc = "done" /\ asks[i].status # 0 /\ ~IsOk(asks[i].status))
         => asks[i].outcome = "Failed" /\ raw = JNull

\* C3: when the indexing call fails after extraction succeeded, the
\* invocation ends in Failed, the extracted-text field shows the warning with
\* the failure's message, the busy flag is cleared, and the indexed count is
\* what it was before the invocation.
C3_IndexFailure ==
  \A i \in 1..Len(uploads) :
    LET r == uploads[i] IN
    (r.pc = "done" /\ CallSucceeded(r.calls, "/upload") /\ CallFailed(r.calls, "/index"))
      => /\ r.outcome = "Failed"
         /\ extracted = Warn(FailureMessage(Last(r.calls)))
         /\ ~uploading
         /\ indexedCount = r.count0

\* an invocation ended by a non-success status of /index, after an earlier
\* invocation had raised the indexed count
C3_Witness ==
  \E i \in 1..Len(uploads) :
    LET r == uploads[i] IN
    /\ r.pc = "done" /\ CallSucceeded(r.calls, "/upload")
    /\ Last(r.calls)[1] = "/index" /\ Last(r.calls)[2] = "response"
    /\ r.count0 > 0

\* the number of POST /index requests in the log
RECURSIVE IndexRequests(_)
IndexRequests(calls) ==
  IF calls = <<>> THEN 0
  ELSE (IF Head(calls) = Ev("/index", "request", 0) THEN 1 ELSE 0)
       + IndexRequests(Tail(calls))

\* the invocation ended by a failure of its indexing call, after its
\* extraction call succeeded
IndexFailedAfterExtraction(r) ==
  r.pc = "done" /\ CallSucceeded(r.calls, "/upload") /\ CallFailed(r.calls, "/index")

\* C4 (as claimed): after indexing failed, the extracted-text field still
\* holds the text the extraction call returned, and the invocation issued no
\* second indexing call.
C4_TextStaysVisible ==
  \A i \in 1..Len(uploads) :
    IndexFailedAfterExtraction(uploads[i])
      => extracted = uploads[i].text.s /\ IndexRequests(uploads[i].calls) = 1

\* C4 (amended): after indexing failed, the extracted-text field holds the
\* warning with the failure's message in place of the extracted text; what
\* stays on display of the extraction is the filename; the invocation issued
\* one indexing call and no second one.
C4_TextReplacedByWarning ==
  \A i \in 1..Len(uploads) :
    IndexFailedAfterExtraction(uploads[i])
      => /\ extracted = Warn(FailureMessage(Last(uploads[i].calls)))
         /\ lastFilename = uploads[i].body.items[1].meta.filename
         /\ IndexRequests(uploads[i].calls) = 1

\* indexing failed for an extraction that returned the text "ok"
C4_Witness ==
  \E i \in 1..Len(uploads) :
    /\ IndexFailedAfterExtraction(uploads[i])
    /\ uploads[i].text = JStr(<<"o","k">>)
    /\ extracted # <<"o","k">>

\* C5 (as claimed): an invocation that ends in Failed leaves the last
\* filename and the indexed count as they were before it.
C5_FailureNotHalfUpdated ==
  \A i \in 1..Len(uploads) :
    (uploads[i].pc = "done" /\ uploads[i].outcome = "Failed")
      => lastFilename = uploads[i].name0 /\ indexedCount = uploads[i].count0

\* C6: an invocation started with the auto-index toggle off, whose extraction
\* succeeded, issues no indexing call and leaves the indexed count unchanged.
C6_NoIndexWhenToggleOff ==
  \A i \in 1..Len(uploads) :
    (~uploads[i].autoIndex /\ CallSucceeded(uploads[i].calls, "/upload"))
      => /\ IndexRequests(uploads[i].calls) = 0
         /\ indexedCount = uploads[i].count0

\* such an invocation ended, with a text that would have been indexed, after
\* an earlier invocation had raised the indexed count
C6_Witness ==
  \E i \in 1..Len(uploads) :
    /\ ~uploads[i].autoIndex /\ uploads[i].pc = "done"
    /\ uploads[i].text = JStr(<<"o","k">>)
    /\ uploads[i].outcome = "ExtractedOnly"
    /\ indexedCount > 0

C8_BlankQuestionNoop ==
  [][ Trim(question) = <<>>
        => /\ Len(Running(asks')) <= Len(Running(asks))
           /\ lastNoop' # lastNoop
                => UNCHANGED << answer, raw, loadingAsk, asks >> ]_vars

\* handleAsk returned at its first line, for a question of white space,
\* while an answer and a raw response were on display, and they still are
C8_Witness ==
  /\ lastNoop.fn = "handleAsk" /\ lastNoop.answered
  /\ question = <<" ">>
  /\ answer # <<>>
  /\ raw # JNull

\* the endpoint the spec gives a mode
RoutedTo(m, endpoint) ==
  \/ m = "pipeline" /\ endpoint = "/ask"
  \/ m = "chat" /\ endpoint = "/chat"

\* C9: an invocation of the ask workflow calls the endpoint of the mode
\* selected when it starts; a change of mode changes no invocation in flight
\* and nothing the ask workflow displays; and a response is stored and
\* normalized the same way whatever the mode is by then.
C9_ModeAtInvocation ==
  [][ /\ \A i \in 1..Len(asks') :
           /\ RoutedTo(asks'[i].mode, asks'[i].endpoint)
           /\ \A k \in 1..Len(asks'[i].calls) :
                asks'[i].calls[k][1] = asks'[i].endpoint
      /\ Len(Running(asks')) > Len(Running(asks)) => Last(asks').mode = mode
      /\ mode' # mode => UNCHANGED << asks, answer, raw, loadingAsk >>
      /\ \A i \in 1..Len(asks) :
           (i <= Len(asks') /\ asks[i].pc = "jsonAsk" /\ asks'[i].outcome = "Answered")
             => answer' = getBestText(raw') /\ ~loadingAsk' ]_vars

\* an invocation routed to /chat is in flight while the mode is back to
\* pipeline
C9_Witness ==
  \E i \in 1..Len(asks) :
    /\ InFlight(asks[i])
    /\ asks[i].mode = "chat" /\ asks[i].endpoint = "/chat"
    /\ mode = "pipeline"

\* C10: with the handlers invoked by their buttons only, at most one upload
\* invocation and at most one ask invocation is in flight, and each busy flag
\* is set exactly while its workflow has an invocation in flight.
C10_OneInFlight ==
  /\ Len(Running(uploads)) <= 1
  /\ Len(Running(asks)) <= 1
  /\ uploading <=> Len(Running(uploads)) = 1
  /\ loadingAsk <=> Len(Running(asks)) = 1

\* both workflows have an invocation in flight, and the user has a file
\* selected and a question typed
C10_Witness ==
  /\ Len(Running(uploads)) = 1 /\ Len(Running(asks)) = 1
  /\ uploading /\ loadingAsk
  /\ selectedFile # NoFile /\ ~IsBlank(question)

\* C11 (as claimed): a successful indexing call raises the indexed count by
\* the upserted count the server reports whenever the reply has that field,
\* 0 included, and by the size of the batch only when the field is absent.
C11_CountByServerReport ==
  \A i \in 1..Len(uploads) :
    LET r == uploads[i] IN
    (r.pc = "done" /\ r.outcome = "Indexed")
      => indexedCount = r.count0 +
           (IF Get(r.reply, "upserted") # Undefined
            THEN Get(r.reply, "upserted").n
            ELSE Len(r.body.items))

\* C12 (as claimed): no failure of a workflow leaves its handler: every
\* invocation of UploadPanel's handleUpload and of AskForm's submit ends by
\* returning, never by rethrowing.
C12_NothingRethrown ==
  /\ \A i \in 1..Len(panelRuns) : panelRuns[i].ended # "threw"
  /\ \A i \in 1..Len(formRuns) : formRuns[i].ended # "threw"

\* the ten fields of the claim, in its order: answer, output, message, text,
\* result, then the same five under data
TenFields(data) ==
  << Get(data, "answer"), Get(data, "output"), Get(data, "message"),
     Get(data, "text"), Get(data, "result"),
     OptGet(Get(data, "data"), "answer"), OptGet(Get(data, "data"), "output"),
     OptGet(Get(data, "data"), "message"), OptGet(Get(data, "data"), "text"),
     OptGet(Get(data, "data"), "result") >>

\* C13 (as claimed): when an ask invocation stores a response that is neither
\* a string nor empty, the answer shown is the first present non-empty field
\* among answer, output, message, text, result, data.answer, data.output,
\* data.message, data.text, data.result, coerced to a string, and the
\* pretty-printed JSON only when none of the ten is present and non-empty.
C13_TenFieldsProbed ==
  [][ \A i \in 1..Len(asks) :
        ( /\ i <= Len(asks') /\ asks[i].pc = "jsonAsk"
          /\ asks'[i].outcome = "Answered"
          /\ Truthy(raw') /\ raw'.t # "str" )
        => LET present == SelectSeq(TenFields(raw'), Truthy) IN
           answer' = IF present # <<>> THEN ToStr(present[1])
                     ELSE Stringify(raw', 0) ]_vars

\* C14 (as claimed): the id of the item sent to POST /index is a function of
\* the filename alone: two invocations whose extraction yields the same
\* filename send the same id, and "Report v1.pdf" gives "doc-report-v1".
C14_IdFromFilename ==
  /\ toDocId(<<"R","e","p","o","r","t"," ","v","1",".","p","d","f">>)
       = <<"d","o","c","-","r","e","p","o","r","t","-","v","1">>
  /\ \A i, j \in 1..Len(uploads) :
       (uploads[i].body # Undefined /\ uploads[j].body # Undefined
        /\ uploads[i].body.items[1].meta.filename = uploads[j].body.items[1].meta.filename)
         => uploads[i].body.items[1].id = uploads[j].body.items[1].id
  /\ \A i, j \in 1..Len(panelRuns) :
       (panelRuns[i].items # <<>> /\ panelRuns[j].items # <<>>
        /\ panelRuns[i].items[1].meta.source = panelRuns[j].items[1].meta.source)
         => panelRuns[i].items[1].id = panelRuns[j].items[1].id

\* C15 (as claimed): the two workflows work on independent state: no step of
\* an upload invocation changes the answer, the raw response, the ask busy
\* flag, the mode or the question, and no step of an ask invocation changes
\* the extracted text, the last filename, the indexed count or the upload
\* busy flag.
C15_IndependentState ==
  [][ /\ uploads' # uploads => UNCHANGED << answer, raw, loadingAsk, mode, question >>
      /\ asks' # asks => UNCHANGED << extracted, lastFilename, indexedCount, uploading >>
    ]_vars

\* C15 (amended): the one write across the workflows is the reset at the
\* start of an upload invocation, which empties the answer and the raw
\* response; every other upload step leaves the ask workflow's state alone,
\* and no ask step changes the upload workflow's state.
C15_IndependentButForReset ==
  [][ /\ uploads' # uploads =>
           /\ UNCHANGED << loadingAsk, mode, question >>
           /\ \/ UNCHANGED << answer, raw >>
              \/ ~uploading /\ uploading' /\ answer' = <<>> /\ raw' = JNull
      /\ asks' # asks => UNCHANGED << extracted, lastFilename, indexedCount, uploading >>
    ]_vars

\* an upload invocation has reached its indexing call while an ask invocation
\* awaits its response body
C15_Witness ==
  /\ \E i \in 1..Len(uploads) : uploads[i].pc = "fetchIndex"
  /\ \E i \in 1..Len(asks) : asks[i].pc = "jsonAsk"

\* C17: with the handlers invoked by their buttons only, whenever the ask
\* busy flag is set the answer shown is empty and the raw response is null,
\* whatever steps of the upload workflow have run meanwhile.
C17_BusyMeansCleared == loadingAsk => (answer = <<>> /\ raw = JNull)

\* an ask invocation awaits its response body while an upload invocation has
\* failed and put its warning on display
C17_Witness ==
  /\ loadingAsk
  /\ \E i \in 1..Len(asks) : asks[i].pc = "jsonAsk"
  /\ \E i \in 1..Len(uploads) : uploads[i].pc = "done" /\ uploads[i].outcome = "Failed"
  /\ IsWarning(extracted)

\* C18: whether an upload invocation issues an indexing call is decided by
\* the value the auto-index toggle had when the invocation started: once its
\* extraction has succeeded, it has issued one indexing call if the toggle was
\* on at its start and the text is not blank, and none otherwise, whatever
\* the toggle is by then.
C18_ToggleAtStart ==
  \A i \in 1..Len(uploads) :
    LET r == uploads[i] IN
    Has(r.calls, "/upload", "json")
      => IndexRequests(r.calls) =
           (IF r.autoIndex /\ Trim(r.text.s) # <<>> THEN 1 ELSE 0)

\* an invocation started with the toggle on has issued its indexing call
\* although the toggle is off by now
C18_Witness ==
  \E i \in 1..Len(uploads) :
    /\ uploads[i].autoIndex /\ ~autoIndex
    /\ uploads[i].pc = "fetchIndex"
    /\ IndexRequests(uploads[i].calls) = 1

\* C16: provided every remote call that was issued completes, no busy flag
\* stays set forever: each accepted invocation of handleUpload, of handleAsk
\* and of AskForm's submit is followed by a state in which its busy flag is
\* clear, whether its calls succeeded or failed.
C16_BusyFlagsClear ==
  /\ []<>(~uploading)
  /\ []<>(~loadingAsk)
  /\ []<>(~formBusy)

\* each of the three handlers has an invocation that failed and ended with its
\* busy flag clear
C16_Witness ==
  /\ ~uploading /\ ~loadingAsk /\ ~formBusy
  /\ \E i \in 1..Len(uploads) : uploads[i].pc = "done" /\ uploads[i].outcome = "Failed"
  /\ \E i \in 1..Len(asks) : asks[i].pc = "done" /\ asks[i].outcome = "Failed"
  /\ \E i \in 1..Len(formRuns) : formRuns[i].pc = "done" /\ formRuns[i].ended = "threw"

====
